---- MODULE Spec2Model ----
(***************************************************************************)
(* Verification development for blog.joshbranchaud.com.                    *)
(*                                                                         *)
(* The repository holds a site configuration object (config/index.js) and  *)
(* content documents (blog/*/index.mdx).  Four independent parts are       *)
(* modelled, each with its own specification:                              *)
(*   SpecConfig    - the configuration module and its consumer             *)
(*   SpecDocs      - the front matter of the content files                 *)
(*   SpecBooks     - the books table and its check constraint              *)
(*   SpecMigration - the two versions of the `up` migration                *)
(***************************************************************************)
EXTENDS Integers, Sequences, FiniteSets, TLC

VARIABLES
    \* configuration module
    moduleLoaded,    \* the module body of config/index.js has been evaluated
    exports,         \* module.exports of config/index.js
    siteMetadata,    \* the fields the site generator has read so far
    \* content files
    scanPos,         \* per file: number of segments already scanned
    openHeader,      \* per file: the front-matter block being read, or NoHeader
    headers,         \* per file: the front-matter blocks found so far
    \* books table of the check-constraint post
    books,           \* id -> row
    nextId,          \* books_id_seq
    constraintAdded, \* ensure_year_and_page_count_are_set is on the table
    lastStmt,        \* the statement executed last
    lastResult,      \* its outcome
    \* bookshelf migration
    version,         \* 1: first `up`, 2: `up` with reset_column_information
    authors,         \* authors table: id -> [genre]
    shelf,           \* books table: id -> [author_id, genre]
    dbColumns,       \* columns of books in the database
    cachedColumns,   \* columns of books in the schema cache of GenericBook
    pc,              \* position in `up`
    authorIdx,       \* find_each cursor over authors
    book,            \* local `book` of the first loop body (a books id, or NIL)
    bookIdx,         \* find_each cursor over books
    out              \* lines written by puts

configVars == <<moduleLoaded, exports, siteMetadata>>
docVars == <<scanPos, openHeader, headers>>
bookVars == <<books, nextId, constraintAdded, lastStmt, lastResult>>
migVars == <<version, authors, shelf, dbColumns, cachedColumns, pc, authorIdx, book, bookIdx, out>>
vars == <<configVars, docVars, bookVars, migVars>>

\* SQL null / absent value; a present value v is Val(v).
NULL == << >>

Val(v) == <<v>>

----------------------------------------------------------------------------
(* Part 1: config/index.js                                                 *)

\* A JavaScript value with its typeof tag.
Str(s) == [type |-> "string", value |-> s]

Num(n) == [type |-> "number", value |-> n]

\* themeColor written as a hex number literal instead of a string.
ConfigObjectNumericColor ==
    [ pathPrefix        |-> Str("/"),
      siteTitle         |-> Str("Code Words"),
      siteTitleAlt      |-> Str("Code Words - Josh Branchaud"),
      siteTitleManifest |-> Str("Code Words"),
      siteUrl           |-> Str("https://blog.joshbranchaud.com"),
      siteLanguage      |-> Str("en"),
      siteHeadline      |-> Str("Learning in public, writing it down"),
      siteBanner        |-> Str("/social/banner.jpg"),
      favicon           |-> Str("src/favicon.png"),
      siteDescription   |-> Str("Learning in public, writing it down. A blog written by Josh Branchaud"),
      author            |-> Str("Josh Branchaud"),
      siteLogo          |-> Str("/social/logo.png"),
      userTwitter       |-> Str("@jbrancha"),
      ogLanguage        |-> Str("en_US"),
      themeColor        |-> Num(3447003),
      backgroundColor   |-> Str("#2b2e3c") ]

\* The object literal assigned to module.exports.
ConfigObject ==
    [ pathPrefix        |-> Str("/"),
      siteTitle         |-> Str("Code Words"),
      siteTitleAlt      |-> Str("Code Words - Josh Branchaud"),
      siteTitleManifest |-> Str("Code Words"),
      siteUrl           |-> Str("https://blog.joshbranchaud.com"),
      siteLanguage      |-> Str("en"),
      siteHeadline      |-> Str("Learning in public, writing it down"),
      siteBanner        |-> Str("/social/banner.jpg"),
      favicon           |-> Str("src/favicon.png"),
      siteDescription   |-> Str("Learning in public, writing it down. A blog written by Josh Branchaud"),
      author            |-> Str("Josh Branchaud"),
      siteLogo          |-> Str("/social/logo.png"),
      userTwitter       |-> Str("@jbrancha"),
      ogLanguage        |-> Str("en_US"),
      themeColor        |-> Str("#3498DB"),
      backgroundColor   |-> Str("#2b2e3c") ]

\* The keys a consumer may ask for.
ConfigKeys == DOMAIN ConfigObject

\* A load that is not once-only: a later evaluation rewrites pathPrefix for
\* a deployment under /portfolio.
LoadConfigAgain ==
    /\ moduleLoaded' = TRUE
    /\ exports' = IF moduleLoaded
                  THEN [exports EXCEPT !.pathPrefix = Str("portfolio")]
                  ELSE ConfigObject
    /\ exports' # exports
    /\ UNCHANGED siteMetadata

\* Evaluation of the module body: the one assignment to module.exports.
LoadConfig ==
    /\ ~moduleLoaded
    /\ moduleLoaded' = TRUE
    /\ exports' = ConfigObject
    /\ UNCHANGED siteMetadata

\* The site generator reads one field of the loaded object.
ReadField(k) ==
    /\ moduleLoaded
    /\ k \in DOMAIN exports
    /\ k \notin DOMAIN siteMetadata
    /\ siteMetadata' = [x \in DOMAIN siteMetadata \cup {k} |->
                          IF x = k THEN exports[k] ELSE siteMetadata[x]]
    /\ UNCHANGED <<moduleLoaded, exports>>

EmptyMap == [x \in {} |-> NULL]

InitConfigVars ==
    /\ moduleLoaded = FALSE
    /\ exports = EmptyMap
    /\ siteMetadata = EmptyMap

----------------------------------------------------------------------------
(* Part 2: front matter of the content files                               *)

Files == {"migrating-data-along-with-the-schema",
          "react-loop-2019",
          "ensure-column-relationships-with-check-constraints",
          "part_000"}

\* Lines first..last of a file, all of one kind:
\*   fence ("---"), date, title, categories (the key and its list items),
\*   body (everything else).
Seg(kind, first, last) == [kind |-> kind, first |-> first, last |-> last]

MigratingFile ==
    << Seg("fence", 1, 1), Seg("date", 2, 2), Seg("title", 3, 3),
       Seg("categories", 4, 6), Seg("fence", 7, 7), Seg("body", 8, 231),
       Seg("fence", 232, 232), Seg("date", 233, 233), Seg("title", 234, 234),
       Seg("categories", 235, 237), Seg("fence", 238, 238),
       Seg("body", 239, 405) >>

ReactLoopFile ==
    << Seg("fence", 1, 1), Seg("date", 2, 2), Seg("title", 3, 3),
       Seg("categories", 4, 6), Seg("fence", 7, 7), Seg("body", 8, 89) >>

CheckConstraintsFile ==
    << Seg("fence", 1, 1), Seg("date", 2, 2), Seg("title", 3, 3),
       Seg("categories", 4, 5), Seg("fence", 6, 6), Seg("body", 7, 110) >>

FormikFile ==
    << Seg("fence", 1, 1), Seg("date", 2, 2), Seg("title", 3, 3),
       Seg("categories", 4, 7), Seg("fence", 8, 8), Seg("body", 9, 82) >>

FileSegs(f) ==
    CASE f = "migrating-data-along-with-the-schema" -> MigratingFile
      [] f = "react-loop-2019" -> ReactLoopFile
      [] f = "ensure-column-relationships-with-check-constraints" -> CheckConstraintsFile
      [] f = "part_000" -> FormikFile

FrontMatterFields == {"date", "title", "categories"}

NoHeader == [start |-> 0, fields |-> {}]

\* Read the next segment of file f.  A fence opens a metadata block when
\* none is open and closes the open one otherwise; a key inside an open
\* block is recorded; anything else is prose.
ScanSegment(f) ==
    /\ scanPos[f] < Len(FileSegs(f))
    /\ LET s == FileSegs(f)[scanPos[f] + 1]
           h == openHeader[f]
       IN /\ scanPos' = [scanPos EXCEPT ![f] = @ + 1]
          /\ IF s.kind = "fence"
             THEN IF h = NoHeader
                  THEN /\ openHeader' = [openHeader EXCEPT ![f] =
                                            [start |-> s.first, fields |-> {}]]
                       /\ UNCHANGED headers
                  ELSE /\ openHeader' = [openHeader EXCEPT ![f] = NoHeader]
                       /\ headers' = [headers EXCEPT ![f] = Append(@, h)]
             ELSE IF h # NoHeader /\ s.kind \in FrontMatterFields
                  THEN /\ openHeader' = [openHeader EXCEPT ![f] =
                                            [h EXCEPT !.fields = @ \cup {s.kind}]]
                       /\ UNCHANGED headers
                  ELSE UNCHANGED <<openHeader, headers>>

Scanned(f) == scanPos[f] = Len(FileSegs(f))

InitDocVars ==
    /\ scanPos = [f \in Files |-> 0]
    /\ openHeader = [f \in Files |-> NoHeader]
    /\ headers = [f \in Files |-> << >>]

----------------------------------------------------------------------------
(* Part 3: the books table and ensure_year_and_page_count_are_set          *)

\* Largest value books_id_seq hands out in the model.
MaxId == 2

\* A value expression of a statement: a string constant in single quotes,
\* a name in double quotes (an identifier, i.e. a column reference), or null.
Lit(s) == [kind |-> "literal", text |-> s]

Ident(s) == [kind |-> "identifier", text |-> s]

NullLit == [kind |-> "null", text |-> ""]

TitleExprs == {Lit("Fledgling"), NullLit}

AuthorExprs == {Lit("Octavia Butler"), Ident("Octavia Butler"), NullLit}

\* Values a statement may give the two nullable integer columns.
YearValues == {NULL, Val(2005)}

PageCountValues == {NULL, Val(352)}

CheckedColumns == {"publication_year", "page_count"}

ColumnValues(c) == IF c = "publication_year" THEN YearValues ELSE PageCountValues

\* The SET lists of an update over the two columns: one or both of them.
SetLists ==
    UNION {[cs -> YearValues \cup PageCountValues] : cs \in (SUBSET CheckedColumns) \ {{}}}

ValidSetLists == {s \in SetLists : \A c \in DOMAIN s : s[c] \in ColumnValues(c)}

\* A value expression can be evaluated outside any row: a quoted name has
\* no column to refer to in a VALUES list.
Evaluable(e) == e.kind # "identifier"

Eval(e) == IF e.kind = "literal" THEN Val(e.text) ELSE NULL

\* boolean::integer
BoolToInt(b) == IF b THEN 1 ELSE 0

\* The constraint with the sum compared to 0 instead of 1.
CheckExprNotZero(row) ==
    (BoolToInt(row.publication_year # NULL) + BoolToInt(row.page_count # NULL)) # 0

\* check (((publication_year is not null)::integer +
\*         (page_count is not null)::integer) != 1)
CheckExpr(row) ==
    (BoolToInt(row.publication_year # NULL) + BoolToInt(row.page_count # NULL)) # 1

\* title and author are `not null`.
NotNullOk(row) == row.title # NULL /\ row.author # NULL

\* The error a new row raises, or "ok".
RowVerdict(row) ==
    IF ~NotNullOk(row) THEN "not_null_violation"
    ELSE IF constraintAdded /\ ~CheckExpr(row) THEN "check_violation"
    ELSE "ok"

\* insert into books (title, author[, publication_year][, page_count])
\*   values (t, a[, y][, p]);  an omitted column is null.
Insert(t, a, y, p) ==
    LET stmt == [kind |-> "insert", title |-> t, author |-> a,
                 publication_year |-> y, page_count |-> p]
        row == [title |-> Eval(t), author |-> Eval(a),
                publication_year |-> y, page_count |-> p]
    IN /\ nextId <= MaxId
       /\ lastStmt' = stmt
       /\ IF ~(Evaluable(t) /\ Evaluable(a))
          THEN /\ lastResult' = "undefined_column"
               /\ UNCHANGED <<books, nextId, constraintAdded>>
          ELSE /\ nextId' = nextId + 1
               /\ lastResult' = RowVerdict(row)
               /\ books' = IF RowVerdict(row) = "ok"
                           THEN [i \in DOMAIN books \cup {nextId} |->
                                   IF i = nextId THEN row ELSE books[i]]
                           ELSE books
               /\ UNCHANGED constraintAdded

\* update books set <set list> where id = i;
Update(i, set) ==
    LET stmt == [kind |-> "update", id |-> i, set |-> set]
    IN /\ lastStmt' = stmt
       /\ UNCHANGED <<nextId, constraintAdded>>
       /\ IF i \notin DOMAIN books
          THEN /\ lastResult' = "ok"
               /\ UNCHANGED books
          ELSE LET old == books[i]
                   new == [c \in DOMAIN old |->
                             IF c \in DOMAIN set THEN set[c] ELSE old[c]]
               IN /\ lastResult' = RowVerdict(new)
                  /\ books' = IF RowVerdict(new) = "ok"
                              THEN [books EXCEPT ![i] = new]
                              ELSE books

\* alter table books add constraint ensure_year_and_page_count_are_set ...
\* The existing rows are validated; a violating row aborts the statement.
AddConstraint ==
    /\ ~constraintAdded
    /\ lastStmt' = [kind |-> "alter"]
    /\ UNCHANGED <<books, nextId>>
    /\ IF \A i \in DOMAIN books : CheckExpr(books[i])
       THEN /\ constraintAdded' = TRUE
            /\ lastResult' = "ok"
       ELSE /\ constraintAdded' = FALSE
            /\ lastResult' = "check_violation"

InitBookVars ==
    /\ books = EmptyMap
    /\ nextId = 1
    /\ constraintAdded = FALSE
    /\ lastStmt = [kind |-> "none"]
    /\ lastResult = "ok"

----------------------------------------------------------------------------
(* Part 4: MoveGenreFromAuthorsToBooks#up, both versions                   *)

\* Largest numbers of rows of authors and of books at migration time.
MaxAuthors == 2

MaxBooks == 2

Genres == {"science fiction", "essay"}

\* Columns of books before the migration.
BooksColumnsBefore ==
    {"id", "title", "publication_year", "created_at", "updated_at", "author_id"}

\* Ruby nil, as the result of find_by.
NIL == 0

\* The schema cache of GenericBook: the column list ActiveRecord believes
\* books to have; after reset_column_information it is reloaded on next use.
LoadedCache(cache) ==
    IF cache.loaded THEN cache ELSE [loaded |-> TRUE, columns |-> dbColumns]

AuthorIds == DOMAIN authors

BookIds == DOMAIN shelf

\* The rows GenericBook.find_by(author_id: a) may return: nil when there is
\* none, else any one matching row (the query has LIMIT 1 and no ORDER BY
\* the author's books are told apart by).
FindByAuthor(a) ==
    LET hits == {b \in BookIds : shelf[b].author_id = Val(a)}
    IN IF hits = {} THEN {NIL} ELSE hits

\* add_column :books, :genre, :string
AddColumn ==
    /\ pc = "add_column"
    /\ dbColumns' = dbColumns \cup {"genre"}
    /\ shelf' = [b \in BookIds |->
                   [author_id |-> shelf[b].author_id, genre |-> NULL]]
    /\ out' = Append(out, [line |-> "add_column"])
    /\ pc' = IF version = 2 THEN "reset_column_information" ELSE "authors_each"
    /\ UNCHANGED <<version, authors, cachedColumns, authorIdx, book, bookIdx>>

\* GenericBook.reset_column_information (second version only)
ResetColumnInformation ==
    /\ pc = "reset_column_information"
    /\ cachedColumns' = [loaded |-> FALSE, columns |-> {}]
    /\ pc' = "authors_each"
    /\ UNCHANGED <<version, authors, shelf, dbColumns, authorIdx, book, bookIdx, out>>

\* GenericAuthor.find_each do |author| : next author in primary-key order
NextAuthor ==
    /\ pc = "authors_each"
    /\ IF authorIdx < Cardinality(AuthorIds)
       THEN /\ authorIdx' = authorIdx + 1
            /\ pc' = "find_by"
       ELSE /\ pc' = "puts_migrated"
            /\ UNCHANGED authorIdx
    /\ UNCHANGED <<version, authors, shelf, dbColumns, cachedColumns, book, bookIdx, out>>

\* book = GenericBook.find_by(author_id: author.id)
FindBy ==
    /\ pc = "find_by"
    /\ book' \in FindByAuthor(authorIdx)
    /\ cachedColumns' = LoadedCache(cachedColumns)
    /\ pc' = "puts_moving"
    /\ UNCHANGED <<version, authors, shelf, dbColumns, authorIdx, bookIdx, out>>

\* puts "Moving #{author.genre} from #{author.name} to #{book.title}"
\* book.title on nil raises NoMethodError, which leaves `up`.
PutsMoving ==
    /\ pc = "puts_moving"
    /\ IF book = NIL
       THEN /\ pc' = "raised"
            /\ UNCHANGED out
       ELSE /\ out' = Append(out, [line |-> "moving", genre |-> authors[authorIdx].genre,
                                   author |-> authorIdx, book |-> book])
            /\ pc' = "update"
    /\ UNCHANGED <<version, authors, shelf, dbColumns, cachedColumns, authorIdx, book, bookIdx>>

\* book.update!(genre: author.genre): an attribute that is not among the
\* cached columns is ignored.
UpdateBook ==
    /\ pc = "update"
    /\ cachedColumns' = LoadedCache(cachedColumns)
    /\ shelf' = IF "genre" \in LoadedCache(cachedColumns).columns
                THEN [shelf EXCEPT ![book].genre = Val(authors[authorIdx].genre)]
                ELSE shelf
    /\ pc' = "authors_each"
    /\ UNCHANGED <<version, authors, dbColumns, authorIdx, book, bookIdx, out>>

\* puts "\n### Genres have supposedly been migrated ###\n\n"
PutsMigrated ==
    /\ pc = "puts_migrated"
    /\ out' = Append(out, [line |-> "migrated"])
    /\ pc' = "books_each"
    /\ UNCHANGED <<version, authors, shelf, dbColumns, cachedColumns, authorIdx, book, bookIdx>>

\* GenericBook.find_each do |book|
\*   puts "The genre of #{book.title} is #{book.genre || 'ø'}"
PutsGenre ==
    /\ pc = "books_each"
    /\ IF bookIdx < Cardinality(BookIds)
       THEN /\ bookIdx' = bookIdx + 1
            /\ out' = Append(out, [line |-> "genre", book |-> bookIdx + 1,
                                   genre |-> shelf[bookIdx + 1].genre])
            /\ UNCHANGED pc
       ELSE /\ pc' = "done"
            /\ UNCHANGED <<bookIdx, out>>
    /\ cachedColumns' = LoadedCache(cachedColumns)
    /\ UNCHANGED <<version, authors, shelf, dbColumns, authorIdx, book>>

\* The data the live application may hold when the migration starts.
InitMigVars ==
    /\ version \in {1, 2}
    /\ \E n \in 0..MaxAuthors : authors \in [1..n -> [genre : Genres]]
    /\ \E m \in 0..MaxBooks :
         shelf \in [1..m -> [author_id : {NULL} \cup {Val(a) : a \in DOMAIN authors}]]
    /\ dbColumns = BooksColumnsBefore
    /\ cachedColumns = [loaded |-> TRUE, columns |-> BooksColumnsBefore]
    /\ pc = "add_column"
    /\ authorIdx = 0
    /\ book = NIL
    /\ bookIdx = 0
    /\ out = << >>

----------------------------------------------------------------------------
(* Specifications                                                          *)

IdleConfigVars == InitConfigVars

IdleDocVars == InitDocVars

IdleBookVars == InitBookVars

IdleMigVars ==
    /\ version = 1
    /\ authors = EmptyMap
    /\ shelf = EmptyMap
    /\ dbColumns = BooksColumnsBefore
    /\ cachedColumns = [loaded |-> TRUE, columns |-> BooksColumnsBefore]
    /\ pc = "idle"
    /\ authorIdx = 0
    /\ book = NIL
    /\ bookIdx = 0
    /\ out = << >>

InitConfig == InitConfigVars /\ IdleDocVars /\ IdleBookVars /\ IdleMigVars

NextConfig ==
    \/ LoadConfig /\ UNCHANGED <<docVars, bookVars, migVars>>
    \/ \E k \in ConfigKeys : ReadField(k) /\ UNCHANGED <<docVars, bookVars, migVars>>

SpecConfig == InitConfig /\ [][NextConfig]_vars

InitDocs == IdleConfigVars /\ InitDocVars /\ IdleBookVars /\ IdleMigVars

NextDocs == \E f \in Files : ScanSegment(f) /\ UNCHANGED <<configVars, bookVars, migVars>>

SpecDocs == InitDocs /\ [][NextDocs]_vars

InitBooks == IdleConfigVars /\ IdleDocVars /\ InitBookVars /\ IdleMigVars

NextBooks ==
    \/ \E t \in TitleExprs, a \in AuthorExprs, y \in YearValues, p \in PageCountValues :
         Insert(t, a, y, p) /\ UNCHANGED <<configVars, docVars, migVars>>
    \/ \E i \in 1..MaxId, set \in ValidSetLists :
         Update(i, set) /\ UNCHANGED <<configVars, docVars, migVars>>
    \/ AddConstraint /\ UNCHANGED <<configVars, docVars, migVars>>

SpecBooks == InitBooks /\ [][NextBooks]_vars

InitMigration == IdleConfigVars /\ IdleDocVars /\ IdleBookVars /\ InitMigVars

NextMigration ==
    \/ AddColumn /\ UNCHANGED <<configVars, docVars, bookVars>>
    \/ ResetColumnInformation /\ UNCHANGED <<configVars, docVars, bookVars>>
    \/ NextAuthor /\ UNCHANGED <<configVars, docVars, bookVars>>
    \/ FindBy /\ UNCHANGED <<configVars, docVars, bookVars>>
    \/ PutsMoving /\ UNCHANGED <<configVars, docVars, bookVars>>
    \/ UpdateBook /\ UNCHANGED <<configVars, docVars, bookVars>>
    \/ PutsMigrated /\ UNCHANGED <<configVars, docVars, bookVars>>
    \/ PutsGenre /\ UNCHANGED <<configVars, docVars, bookVars>>

SpecMigration == InitMigration /\ [][NextMigration]_vars

----------------------------------------------------------------------------
(* Claims                                                                  *)

\* C1: once the configuration module has been loaded, no later step of the
\* build changes any field of the exported object, whatever the consumer
\* has read of it.
C1_ConfigNeverMutated == [][moduleLoaded => exports' = exports]_vars

\* C1 witness: the consumer has read every field of the loaded object and
\* holds the values the object literal gave them.
C1_Witness ==
    /\ moduleLoaded
    /\ DOMAIN siteMetadata = ConfigKeys
    /\ \A k \in ConfigKeys : siteMetadata[k] = ConfigObject[k]

\* C2: every key the exported configuration map defines holds a string
\* (typeof value = "string"), and every value handed to the consumer is one.
C2_EveryFieldIsString ==
    /\ \A k \in DOMAIN exports : exports[k].type = "string"
    /\ \A k \in DOMAIN siteMetadata : siteMetadata[k].type = "string"

\* C2 witness: the module is loaded, its 16 keys are defined and the
\* consumer has read themeColor.
C2_Witness ==
    /\ moduleLoaded
    /\ Cardinality(DOMAIN exports) = Cardinality(ConfigKeys)
    /\ "themeColor" \in DOMAIN siteMetadata
    /\ "siteUrl" \notin DOMAIN siteMetadata

\* C3: every content file, once read to its end, holds exactly one document:
\* one front-matter block, which starts on line 1 of the file and carries
\* date, title and categories.
C3_OneDocumentPerFileHeaderFirst ==
    \A f \in Files :
        Scanned(f) =>
            /\ openHeader[f] = NoHeader
            /\ Len(headers[f]) = 1
            /\ \A i \in 1..Len(headers[f]) :
                 /\ headers[f][i].start = 1
                 /\ headers[f][i].fields = FrontMatterFields

\* C4: with the constraint on the table every row has publication_year and
\* page_count both null or both set, and the constraint expression accepts
\* exactly the null/null and value/value combinations.
C4_YearAndPageCountSetTogether ==
    /\ constraintAdded =>
         \A i \in DOMAIN books :
             (books[i].publication_year = NULL) <=> (books[i].page_count = NULL)
    /\ \A y \in YearValues, p \in PageCountValues :
         CheckExpr([publication_year |-> y, page_count |-> p])
             <=> ((y = NULL) <=> (p = NULL))

\* C4 witness: under the constraint the table holds a null/null row and a
\* value/value row, and the last statement tried a mixed row and was refused.
C4_Witness ==
    /\ constraintAdded
    /\ \E i \in DOMAIN books :
         books[i].publication_year = NULL /\ books[i].page_count = NULL
    /\ \E i \in DOMAIN books :
         books[i].publication_year # NULL /\ books[i].page_count # NULL
    /\ lastStmt.kind = "update"
    /\ lastResult = "check_violation"

\* stmt is an update whose SET list gives exactly the columns cols, each a
\* non-null value.
SetsOnly(stmt, cols) ==
    /\ stmt.kind = "update"
    /\ DOMAIN stmt.set = cols
    /\ \A c \in cols : stmt.set[c] # NULL

\* Row i exists and has neither column set.
BothNullRow(i) ==
    /\ i \in DOMAIN books
    /\ books[i].publication_year = NULL
    /\ books[i].page_count = NULL

\* C5: under the constraint, on a row with both columns null an update that
\* sets only publication_year is refused with a check violation and leaves
\* the row as it was; an insert that gives title and author and neither of
\* the two columns is accepted, and so is an update that sets both columns.
C5_MixedUpdateRefusedOthersAccepted ==
    [][ /\ (constraintAdded /\ SetsOnly(lastStmt', {"publication_year"})
               /\ BothNullRow(lastStmt'.id))
            => (lastResult' = "check_violation" /\ books' = books)
        /\ (lastStmt'.kind = "insert"
               /\ lastStmt'.title # NullLit /\ lastStmt'.author # NullLit
               /\ lastStmt'.publication_year = NULL /\ lastStmt'.page_count = NULL)
            => (lastResult' = "ok" /\ DOMAIN books' = DOMAIN books \cup {nextId})
        /\ (constraintAdded /\ SetsOnly(lastStmt', CheckedColumns)
               /\ BothNullRow(lastStmt'.id))
            => (lastResult' = "ok" /\ books'[lastStmt'.id].publication_year # NULL
                                   /\ books'[lastStmt'.id].page_count # NULL)
      ]_vars

\* C6: the first version of `up` never raises, and when it has run to its
\* end every row of books has a null genre; at each update! the cached
\* column list lacks genre.
C6_FirstVersionCompletesAllGenresNull ==
    version = 1 =>
        /\ pc # "raised"
        /\ pc = "update" => "genre" \notin LoadedCache(cachedColumns).columns
        /\ pc = "done" => \A b \in BookIds : shelf[b].genre = NULL

\* C7: in the version with reset_column_information the cached column list
\* has genre at every update!, and when `up` has run to its end every book
\* that has an author has that author's genre.
C7_ResetVersionMigratesEveryGenre ==
    version = 2 =>
        /\ pc = "update" => "genre" \in LoadedCache(cachedColumns).columns
        /\ pc = "done" =>
             \A b \in BookIds :
                 shelf[b].author_id # NULL =>
                     shelf[b].genre = Val(authors[shelf[b].author_id[1]].genre)

====
